---- MODULE Spec2Model ----
(***************************************************************************)
(* Model of build_hot_reload.py: the watch-build-reload orchestrator.      *)
(*                                                                         *)
(* The orchestrator is one sequential process; pc is its position in       *)
(* main / build_and_run_project / populate_last_mtimes / check_for_changes *)
(* / watch_for_changes.  Everything outside it (the developer editing the  *)
(* source tree, the compiler's exit status, the host process exiting, the  *)
(* stop marker being created) is the environment and interleaves freely    *)
(* with the orchestrator's steps.                                          *)
(***************************************************************************)
EXTENDS Naturals, FiniteSets

VARIABLES
    pc,               \* position of the orchestrator
    phase,            \* "initial" (main, line 165) or "watch" (watch_for_changes)
    disk,             \* tracked .odin files on disk: file -> st_mtime
    last_mtimes,      \* the global dict last_mtimes
    acc,              \* dict under construction in populate_last_mtimes
    listed,           \* files yielded by os.walk and not yet visited
    changes_detected, \* local of check_for_changes, and its return value
    game,             \* artifact at OUT_DIR/game{dll_ext}
    game_tmp,         \* artifact at OUT_DIR/game_tmp{dll_ext}
    dll_built,        \* local of build_and_run_project
    binary_built,     \* local of build_and_run_project
    running,          \* value returned by is_binary_running()
    hostAlive,        \* live host processes (process-table lines containing EXE)
    stopMarker,       \* EXIT_SIGNAL_FILE exists
    \* ---- history (observation only, never read by the orchestrator) ----
    spawnCount,       \* Popen calls made by the orchestrator
    exitCount,        \* host processes that exited on their own
    failCount,        \* process-table queries that raised
    inFlight,         \* compiler processes started and not yet exited
    queryFailed,      \* the is_binary_running call just made raised
    snap0,            \* last_mtimes when the latest check_for_changes began
    prev0,            \* last_mtimes when the check_for_changes before it began
    quiet,            \* check_for_changes calls begun since the last fs event
    pollsSinceMarker, \* check_for_changes calls begun while the marker existed
    rebuildsSinceMarker, \* rebuilds begun after such a call returned True
    markerAtStart,    \* the marker existed when main started
    coalesce,         \* rebuild cycles caused by the fs events of one sleep
    inspected,        \* file -> st_mtime read by the current check_for_changes
    vanished,         \* files whose stat raised in the current check_for_changes
    lateInitial,      \* files changed while the initial build ran, not rebuilt since
    lateRebuild,      \* files changed while a rebuild ran, not rebuilt since
    initialBuild,     \* outcome of main's build_and_run_project (line 165),
                      \* kept until main enters watch_for_changes
    snapshots,        \* populate_last_mtimes calls begun
    fsEvents          \* file-system events performed so far

vars == <<pc, phase, disk, last_mtimes, acc, listed, changes_detected, game,
          game_tmp, dll_built, binary_built, running, hostAlive, stopMarker,
          spawnCount, exitCount, failCount, inFlight, queryFailed,
          snap0, prev0, quiet,
          pollsSinceMarker, rebuildsSinceMarker, markerAtStart, coalesce, inspected, vanished, lateInitial,
          lateRebuild, initialBuild,
          snapshots, fsEvents>>

(* ------------------------------ bounds --------------------------------- *)
MaxTime == 2          \* modification times are 1..MaxTime
MaxProcEvents == 1    \* host exits plus failed process-table queries
MaxFsEvents == 2      \* file-system events the environment performs

Files == {"a.odin", "b.odin"}
Times == 1..MaxTime
Contents == {"bytes1", "bytes2"}  \* what a compiler run can produce

Min(a, b) == IF a < b THEN a ELSE b

(* ------------------------------ dicts ---------------------------------- *)
Empty == [f \in {} |-> 0]
Put(d, f, t) == [g \in (DOMAIN d) \cup {f} |-> IF g = f THEN t ELSE d[g]]
Pop(d, f) == [g \in (DOMAIN d) \ {f} |-> d[g]]
Dicts == UNION {[S -> Times] : S \in SUBSET Files}

(* ---------------------------- artifacts -------------------------------- *)
Absent == [kind |-> "absent", bytes |-> "none"]
Partial == [kind |-> "partial", bytes |-> "none"]
Complete(c) == [kind |-> "complete", bytes |-> c]

(* ------------------------- build_dll (40-58) --------------------------- *)
\* mutant: the compiler is started and not waited for.
RunNoWait(compiling, next) == next

\* lines 53, 64: subprocess.run returns only when the child has exited:
\* the caller stays at `compiling` and reaches `next` afterwards.
RunWaits(compiling, next) == compiling

\* mutant: the compiler is given the final path as -out.
CompilerOutputInPlace(g, t, bytes) == <<bytes, t>>

\* The compiler is given -out:game_tmp (line 47): what it writes lands in
\* game_tmp, never in game.  Result is the pair <<game, game_tmp>>.
CompilerOutput(g, t, bytes) == <<g, bytes>>

\* line 54: rename game_tmp -> game, atomically replacing game.
Rename(g, t) == <<t, Absent>>

\* line 53: subprocess.run starts the compiler.
build_dll_start ==
    /\ pc = "build_dll"
    /\ pc' = RunWaits("dll_compiling", "build_binary")
    /\ inFlight' = Min(inFlight + 1, 2)
    /\ UNCHANGED <<phase, disk, last_mtimes, acc, listed, changes_detected,
                   game, game_tmp, dll_built, binary_built, running,
                   hostAlive, stopMarker, spawnCount, exitCount, failCount,
                   queryFailed, snap0, prev0, quiet, pollsSinceMarker,
                   rebuildsSinceMarker, markerAtStart, coalesce, inspected,
                   vanished, lateInitial, lateRebuild, initialBuild,
                   snapshots, fsEvents>>

\* the running compiler has written part of its output file.
dll_compiler_writes ==
    /\ pc = "dll_compiling"
    /\ CompilerOutput(game, game_tmp, Partial) # <<game, game_tmp>>
    /\ game' = CompilerOutput(game, game_tmp, Partial)[1]
    /\ game_tmp' = CompilerOutput(game, game_tmp, Partial)[2]
    /\ UNCHANGED <<pc, phase, disk, last_mtimes, acc, listed,
                   changes_detected, dll_built, binary_built, running,
                   hostAlive, stopMarker, spawnCount, exitCount, failCount,
                   inFlight, queryFailed, snap0, prev0, quiet,
                   pollsSinceMarker, rebuildsSinceMarker, markerAtStart,
                   coalesce, inspected, vanished, lateInitial, lateRebuild,
                   initialBuild, snapshots, fsEvents>>

\* line 53, exit status 0: the output file is complete.
dll_compiler_ok ==
    /\ pc = "dll_compiling"
    /\ \E c \in Contents :
          /\ game' = CompilerOutput(game, game_tmp, Complete(c))[1]
          /\ game_tmp' = CompilerOutput(game, game_tmp, Complete(c))[2]
    /\ pc' = "dll_rename"
    /\ inFlight' = inFlight - 1
    /\ UNCHANGED <<phase, disk, last_mtimes, acc, listed, changes_detected,
                   dll_built, binary_built, running, hostAlive, stopMarker,
                   spawnCount, exitCount, failCount, queryFailed, snap0,
                   prev0, quiet, pollsSinceMarker, rebuildsSinceMarker,
                   markerAtStart, coalesce, inspected, vanished, lateInitial,
                   lateRebuild, initialBuild, snapshots, fsEvents>>

\* lines 53, 56-58: nonzero exit raises CalledProcessError; return False.
dll_compiler_fail ==
    /\ pc = "dll_compiling"
    /\ dll_built' = FALSE
    /\ pc' = "build_binary"
    /\ inFlight' = inFlight - 1
    /\ UNCHANGED <<phase, disk, last_mtimes, acc, listed, changes_detected,
                   game, game_tmp, binary_built, running, hostAlive,
                   stopMarker, spawnCount, exitCount, failCount, queryFailed,
                   snap0, prev0, quiet, pollsSinceMarker,
                   rebuildsSinceMarker, markerAtStart, coalesce, inspected,
                   vanished, lateInitial, lateRebuild, initialBuild,
                   snapshots, fsEvents>>

\* lines 54-55: rename into place and return True.
dll_rename ==
    /\ pc = "dll_rename"
    /\ game' = Rename(game, game_tmp)[1]
    /\ game_tmp' = Rename(game, game_tmp)[2]
    /\ dll_built' = TRUE
    /\ pc' = "build_binary"
    /\ UNCHANGED <<phase, disk, last_mtimes, acc, listed, changes_detected,
                   binary_built, running, hostAlive, stopMarker, spawnCount,
                   exitCount, failCount, inFlight, queryFailed, snap0, prev0,
                   quiet, pollsSinceMarker, rebuildsSinceMarker,
                   markerAtStart, coalesce, inspected, vanished, lateInitial,
                   lateRebuild, initialBuild, snapshots, fsEvents>>

(* -------------------- build_and_run_binary (61-71) --------------------- *)
\* line 64: subprocess.run starts the compiler for the executable.
build_binary_start ==
    /\ pc = "build_binary"
    /\ pc' = RunWaits("binary_compiling", "decide")
    /\ inFlight' = Min(inFlight + 1, 2)
    /\ UNCHANGED <<phase, disk, last_mtimes, acc, listed, changes_detected,
                   game, game_tmp, dll_built, binary_built, running,
                   hostAlive, stopMarker, spawnCount, exitCount, failCount,
                   queryFailed, snap0, prev0, quiet, pollsSinceMarker,
                   rebuildsSinceMarker, markerAtStart, coalesce, inspected,
                   vanished, lateInitial, lateRebuild, initialBuild,
                   snapshots, fsEvents>>

\* lines 68-71: True on exit status 0, False on CalledProcessError.
build_binary_exit ==
    /\ pc = "binary_compiling"
    /\ \E ok \in BOOLEAN : binary_built' = ok
    /\ pc' = "decide"
    /\ inFlight' = inFlight - 1
    /\ UNCHANGED <<phase, disk, last_mtimes, acc, listed, changes_detected,
                   game, game_tmp, dll_built, running, hostAlive, stopMarker,
                   spawnCount, exitCount, failCount, queryFailed, snap0,
                   prev0, quiet, pollsSinceMarker, rebuildsSinceMarker,
                   markerAtStart, coalesce, inspected, vanished, lateInitial,
                   lateRebuild, initialBuild, snapshots, fsEvents>>

(* ------------------- build_and_run_project (97-101) -------------------- *)
\* mutant: the run decision looks at the executable build alone.
ShouldRunBinaryOnly(d, b) == b

\* line 100
ShouldRun(d, b) == d /\ b

\* mutant: every build_and_run_project is followed by populate_last_mtimes.
ReturnToRepopulates(ph) == "populate"

\* mutant: after a rebuild the loop goes straight to its sleep.
ReturnToSkipsStop(ph) == IF ph = "initial" THEN "populate" ELSE "sleep"

\* where build_and_run_project returns to: main line 169 or
\* watch_for_changes line 152.
ReturnTo(ph) == IF ph = "initial" THEN "populate" ELSE "check_stop"

\* lines 100-101; on return the locals are gone.
decide ==
    /\ pc = "decide"
    /\ IF ShouldRun(dll_built, binary_built)
          THEN /\ pc' = "is_running"
               /\ initialBuild' = IF phase = "initial" THEN "built"
                                                       ELSE initialBuild
               /\ UNCHANGED <<dll_built, binary_built>>
          ELSE /\ pc' = ReturnTo(phase)
               /\ initialBuild' = IF phase = "initial" THEN "failed"
                                                       ELSE initialBuild
               /\ dll_built' = FALSE
               /\ binary_built' = FALSE
    /\ UNCHANGED <<phase, disk, last_mtimes, acc, listed, changes_detected,
                   game, game_tmp, running, hostAlive, stopMarker,
                   spawnCount, exitCount, failCount, inFlight, queryFailed,
                   snap0, prev0, quiet, pollsSinceMarker,
                   rebuildsSinceMarker, markerAtStart, coalesce, inspected,
                   vanished, lateInitial, lateRebuild, snapshots, fsEvents>>

(* --------------------- is_binary_running (74-83) ----------------------- *)
\* mutant: the match never succeeds.
ExeInResultNever(alive) == FALSE

\* lines 78/81: EXE in result, a substring match over the whole process
\* listing: true when at least one line of it contains EXE.
ExeInResult(alive) == alive > 0

\* mutant: a query that raised is taken as "running".
OnQueryErrorTrue == TRUE

\* lines 82-83: except Exception: return False
OnQueryError == FALSE

\* lines 75-83: the listing's match, or False when the query raised.
is_binary_running ==
    /\ pc = "is_running"
    /\ \/ /\ running' = ExeInResult(hostAlive)
          /\ UNCHANGED <<failCount, queryFailed>>
       \/ /\ exitCount + failCount < MaxProcEvents
          /\ running' = OnQueryError
          /\ failCount' = failCount + 1
          /\ queryFailed' = TRUE
    /\ pc' = "run_binary"
    /\ UNCHANGED <<phase, disk, last_mtimes, acc, listed, changes_detected,
                   game, game_tmp, dll_built, binary_built, hostAlive,
                   stopMarker, spawnCount, exitCount, inFlight, snap0, prev0,
                   quiet, pollsSinceMarker, rebuildsSinceMarker,
                   markerAtStart, coalesce, inspected, vanished, lateInitial,
                   lateRebuild, initialBuild, snapshots, fsEvents>>

(* ------------------------- run_binary (86-95) -------------------------- *)
\* mutant: the host is spawned whatever the query said.
SpawnAlways(r) == TRUE

\* line 87
SpawnNeeded(r) == ~r

\* lines 87-94, then the return from build_and_run_project.
run_binary ==
    /\ pc = "run_binary"
    /\ IF SpawnNeeded(running)
          THEN /\ hostAlive' = hostAlive + 1
               /\ spawnCount' = spawnCount + 1
          ELSE UNCHANGED <<hostAlive, spawnCount>>
    /\ running' = FALSE
    /\ queryFailed' = FALSE
    /\ dll_built' = FALSE
    /\ binary_built' = FALSE
    /\ pc' = ReturnTo(phase)
    /\ UNCHANGED <<phase, disk, last_mtimes, acc, listed, changes_detected,
                   game, game_tmp, stopMarker, exitCount, failCount,
                   inFlight, snap0, prev0, quiet, pollsSinceMarker,
                   rebuildsSinceMarker, markerAtStart, coalesce, inspected,
                   vanished, lateInitial, lateRebuild, initialBuild,
                   snapshots, fsEvents>>

(* ------------------ populate_last_mtimes (104-112) --------------------- *)
\* line 109: os.walk lists the directory.
populate_list ==
    /\ pc = "populate"
    /\ listed' = DOMAIN disk
    /\ acc' = Empty
    /\ pc' = "populate_stat"
    /\ snapshots' = Min(snapshots + 1, 2)
    /\ UNCHANGED <<phase, disk, last_mtimes, changes_detected, game,
                   game_tmp, dll_built, binary_built, running, hostAlive,
                   stopMarker, spawnCount, exitCount, failCount, inFlight,
                   queryFailed, snap0, prev0, quiet, pollsSinceMarker,
                   rebuildsSinceMarker, markerAtStart, coalesce, inspected,
                   vanished, lateInitial, lateRebuild, initialBuild,
                   fsEvents>>

\* line 108: stat() of one listed file; there is no try/except, so a file
\* that is gone raises FileNotFoundError out of main.
populate_stat ==
    /\ pc = "populate_stat"
    /\ \E f \in listed :
          IF f \in DOMAIN disk
             THEN /\ acc' = Put(acc, f, disk[f])
                  /\ listed' = listed \ {f}
                  /\ UNCHANGED pc
             ELSE /\ pc' = "crashed"
                  /\ listed' = {}
                  /\ acc' = Empty
    /\ UNCHANGED <<phase, disk, last_mtimes, changes_detected, game,
                   game_tmp, dll_built, binary_built, running, hostAlive,
                   stopMarker, spawnCount, exitCount, failCount, inFlight,
                   queryFailed, snap0, prev0, quiet, pollsSinceMarker,
                   rebuildsSinceMarker, markerAtStart, coalesce, inspected,
                   vanished, lateInitial, lateRebuild, initialBuild,
                   snapshots, fsEvents>>

\* line 107: the finished dict is bound to last_mtimes; main goes on to
\* watch_for_changes (line 173).
populate_done ==
    /\ pc = "populate_stat"
    /\ listed = {}
    /\ last_mtimes' = acc
    /\ acc' = Empty
    /\ phase' = "watch"
    /\ pc' = "check"
    /\ initialBuild' = "over"
    /\ UNCHANGED <<disk, listed, changes_detected, game, game_tmp, dll_built,
                   binary_built, running, hostAlive, stopMarker, spawnCount,
                   exitCount, failCount, inFlight, queryFailed, snap0, prev0,
                   quiet, pollsSinceMarker, rebuildsSinceMarker,
                   markerAtStart, coalesce, inspected, vanished, lateInitial,
                   lateRebuild, snapshots, fsEvents>>

(* -------------------- check_for_changes (115-141) ---------------------- *)
\* mutant: only a file missing from the snapshot counts.
ChangedOnlyNew(snap, f, mtime) == f \notin DOMAIN snap

\* mutant: a file missing from the snapshot is passed over.
ChangedOnlyKnown(snap, f, mtime) == f \in DOMAIN snap /\ snap[f] # mtime

\* mutant: the comparison never finds the times equal.
ChangedAlways(snap, f, mtime) == TRUE

\* lines 128-130: not_checked or changed
Changed(snap, f, mtime) == f \notin DOMAIN snap \/ snap[f] # mtime

\* mutant: a detected change is reported but not written to the snapshot.
RecordNothing(snap, f, mtime) == snap

\* line 131: last_mtimes[filepath] = mtime
Record(snap, f, mtime) == Put(snap, f, mtime)

\* lines 135-137: the stat raised FileNotFoundError: the entry is popped
\* and changes_detected is left as it is.  Result is
\* <<last_mtimes, changes_detected>>.
NotFound(snap, f, cd) == <<Pop(snap, f), cd>>

\* lines 118, 120: changes_detected = False; os.walk lists the directory.
check_list ==
    /\ pc = "check"
    /\ listed' = DOMAIN disk
    /\ changes_detected' = FALSE
    /\ pc' = "check_stat"
    /\ prev0' = IF quiet >= 1 THEN snap0 ELSE Empty
    /\ snap0' = last_mtimes
    /\ quiet' = Min(quiet + 1, 2)
    /\ pollsSinceMarker' = IF stopMarker THEN Min(pollsSinceMarker + 1, 2)
                                         ELSE pollsSinceMarker
    /\ inspected' = Empty
    /\ vanished' = {}
    /\ UNCHANGED <<phase, disk, last_mtimes, acc, game, game_tmp, dll_built,
                   binary_built, running, hostAlive, stopMarker, spawnCount,
                   exitCount, failCount, inFlight, queryFailed,
                   rebuildsSinceMarker, markerAtStart, coalesce, lateInitial,
                   lateRebuild, initialBuild, snapshots, fsEvents>>

\* lines 125-139: one listed file is stat-ed and compared; the first change
\* found breaks out of both loops and the function returns (line 141).
check_stat ==
    /\ pc = "check_stat"
    /\ \E f \in listed :
          IF f \in DOMAIN disk
             THEN /\ inspected' = Put(inspected, f, disk[f])
                  /\ UNCHANGED vanished
                  /\ IF Changed(last_mtimes, f, disk[f])
                        THEN /\ last_mtimes' = Record(last_mtimes, f, disk[f])
                             /\ changes_detected' = TRUE
                             /\ listed' = {}
                             /\ pc' = "check_return"
                        ELSE /\ listed' = listed \ {f}
                             /\ UNCHANGED <<last_mtimes, changes_detected, pc>>
             ELSE /\ last_mtimes' = NotFound(last_mtimes, f, changes_detected)[1]
                  /\ changes_detected' = NotFound(last_mtimes, f, changes_detected)[2]
                  /\ listed' = listed \ {f}
                  /\ vanished' = vanished \cup {f}
                  /\ UNCHANGED <<pc, inspected>>
    /\ UNCHANGED <<phase, disk, acc, game, game_tmp, dll_built, binary_built,
                   running, hostAlive, stopMarker, spawnCount, exitCount,
                   failCount, inFlight, queryFailed, snap0, prev0, quiet,
                   pollsSinceMarker, rebuildsSinceMarker, markerAtStart,
                   coalesce, lateInitial, lateRebuild, initialBuild,
                   snapshots, fsEvents>>

\* line 141: the walk is exhausted; return changes_detected.
check_exhausted ==
    /\ pc = "check_stat"
    /\ listed = {}
    /\ pc' = "check_return"
    /\ UNCHANGED <<phase, disk, last_mtimes, acc, listed, changes_detected,
                   game, game_tmp, dll_built, binary_built, running,
                   hostAlive, stopMarker, spawnCount, exitCount, failCount,
                   inFlight, queryFailed, snap0, prev0, quiet,
                   pollsSinceMarker, rebuildsSinceMarker, markerAtStart,
                   coalesce, inspected, vanished, lateInitial, lateRebuild,
                   initialBuild, snapshots, fsEvents>>

(* -------------------- watch_for_changes (144-157) ---------------------- *)
\* mutant: a change found by the poll starts no rebuild.
BranchNever(cd) == "check_stop"

\* line 148: where the loop goes on check_for_changes' return value.
Branch(cd) == IF cd THEN "build_dll" ELSE "check_stop"

\* lines 148-150: rebuild when check_for_changes returned True.
watch_branch ==
    /\ pc = "check_return"
    /\ pc' = Branch(changes_detected)
    /\ changes_detected' = FALSE
    /\ coalesce' = IF changes_detected
                      THEN CASE coalesce = "burst" -> "one"
                             [] coalesce = "one" -> "two"
                             [] OTHER -> coalesce
                      ELSE IF quiet >= 1 THEN "settled" ELSE "none"
    /\ inspected' = Empty
    /\ vanished' = {}
    /\ lateInitial' = {}
    /\ lateRebuild' = IF changes_detected THEN {} ELSE lateRebuild
    /\ rebuildsSinceMarker' = IF changes_detected /\ pollsSinceMarker >= 1
                                 THEN Min(rebuildsSinceMarker + 1, 2)
                                 ELSE rebuildsSinceMarker
    /\ UNCHANGED <<phase, disk, last_mtimes, acc, listed, game, game_tmp,
                   dll_built, binary_built, running, hostAlive, stopMarker,
                   spawnCount, exitCount, failCount, inFlight, queryFailed,
                   snap0, prev0, quiet, pollsSinceMarker, markerAtStart,
                   initialBuild, snapshots, fsEvents>>

\* mutant: the marker is never looked at.
StopCheckNever(marker) == "sleep"

\* line 152: where the loop goes on the marker's existence.
StopCheck(marker) == IF marker THEN "unlink" ELSE "sleep"

\* line 152
check_stop ==
    /\ pc = "check_stop"
    /\ pc' = StopCheck(stopMarker)
    /\ UNCHANGED <<phase, disk, last_mtimes, acc, listed, changes_detected,
                   game, game_tmp, dll_built, binary_built, running,
                   hostAlive, stopMarker, spawnCount, exitCount, failCount,
                   inFlight, queryFailed, snap0, prev0, quiet,
                   pollsSinceMarker, rebuildsSinceMarker, markerAtStart,
                   coalesce, inspected, vanished, lateInitial, lateRebuild,
                   initialBuild, snapshots, fsEvents>>

\* line 154: what unlink leaves of the marker.
Unlink(marker) == FALSE

\* lines 154-155: unlink the marker and break.
unlink_and_break ==
    /\ pc = "unlink"
    /\ stopMarker' = Unlink(stopMarker)
    /\ pc' = "stopped"
    /\ UNCHANGED <<phase, disk, last_mtimes, acc, listed, changes_detected,
                   game, game_tmp, dll_built, binary_built, running,
                   hostAlive, spawnCount, exitCount, failCount, inFlight,
                   queryFailed, snap0, prev0, quiet, pollsSinceMarker,
                   rebuildsSinceMarker, markerAtStart, coalesce, inspected,
                   vanished, lateInitial, lateRebuild, initialBuild,
                   snapshots, fsEvents>>

\* line 157: time.sleep(1), then the next iteration.
sleep ==
    /\ pc = "sleep"
    /\ pc' = "check"
    /\ UNCHANGED <<phase, disk, last_mtimes, acc, listed, changes_detected,
                   game, game_tmp, dll_built, binary_built, running,
                   hostAlive, stopMarker, spawnCount, exitCount, failCount,
                   inFlight, queryFailed, snap0, prev0, quiet,
                   pollsSinceMarker, rebuildsSinceMarker, markerAtStart,
                   coalesce, inspected, vanished, lateInitial, lateRebuild,
                   initialBuild, snapshots, fsEvents>>

(* --------------------------- environment ------------------------------- *)
Live == pc \notin {"stopped", "crashed"}

\* Bookkeeping common to the file-system events.  coalesce follows the fs
\* events of one sleep: "settled" after a poll that began after the last
\* event and found nothing, "burst" while events fall into the sleep that
\* follows it, then "one" and "two" as rebuild cycles start.
FsNote ==
    /\ Live
    /\ fsEvents < MaxFsEvents
    /\ fsEvents' = fsEvents + 1
    /\ quiet' = 0
    /\ snap0' = Empty
    /\ prev0' = Empty
    /\ coalesce' = IF pc = "sleep" /\ coalesce \in {"settled", "burst"}
                      THEN "burst" ELSE "none"

\* build_and_run_project (lines 97-101) is executing.
InBuild ==
    pc \in {"build_dll", "dll_compiling", "dll_rename", "build_binary",
            "binary_compiling", "decide", "is_running", "run_binary"}

\* Bookkeeping of a file f given the mtime t: f joins lateInitial when the
\* event falls into the initial build, and lateRebuild when it falls into a
\* rebuild and leaves f differing from the snapshot; an event that leaves f
\* as the snapshot records it takes f out of lateRebuild.
LateNote(f, t) ==
    /\ lateInitial' = IF phase = "initial" /\ InBuild
                          THEN lateInitial \cup {f} ELSE lateInitial
    /\ lateRebuild' =
          IF f \in DOMAIN last_mtimes /\ last_mtimes[f] = t
             THEN lateRebuild \ {f}
             ELSE IF phase = "watch" /\ InBuild
                     THEN lateRebuild \cup {f} ELSE lateRebuild

\* the developer creates a tracked file.
fs_create ==
    /\ FsNote
    /\ \E f \in Files \ DOMAIN disk : \E t \in Times :
          /\ disk' = Put(disk, f, t)
          /\ LateNote(f, t)
    /\ UNCHANGED <<pc, phase, last_mtimes, acc, listed, changes_detected,
                   game, game_tmp, dll_built, binary_built, running,
                   hostAlive, stopMarker, spawnCount, exitCount, failCount,
                   inFlight, queryFailed, pollsSinceMarker,
                   rebuildsSinceMarker, markerAtStart, inspected, vanished,
                   initialBuild, snapshots>>

\* the developer saves a tracked file: its mtime becomes another value.
fs_modify ==
    /\ FsNote
    /\ \E f \in DOMAIN disk : \E t \in Times \ {disk[f]} :
          /\ disk' = Put(disk, f, t)
          /\ LateNote(f, t)
    /\ UNCHANGED <<pc, phase, last_mtimes, acc, listed, changes_detected,
                   game, game_tmp, dll_built, binary_built, running,
                   hostAlive, stopMarker, spawnCount, exitCount, failCount,
                   inFlight, queryFailed, pollsSinceMarker,
                   rebuildsSinceMarker, markerAtStart, inspected, vanished,
                   initialBuild, snapshots>>

\* the developer deletes a tracked file.
fs_delete ==
    /\ FsNote
    /\ \E f \in DOMAIN disk :
          /\ disk' = Pop(disk, f)
          /\ lateInitial' = lateInitial \ {f}
          /\ lateRebuild' = lateRebuild \ {f}
    /\ UNCHANGED <<pc, phase, last_mtimes, acc, listed, changes_detected,
                   game, game_tmp, dll_built, binary_built, running,
                   hostAlive, stopMarker, spawnCount, exitCount, failCount,
                   inFlight, queryFailed, pollsSinceMarker,
                   rebuildsSinceMarker, markerAtStart, inspected, vanished,
                   initialBuild, snapshots>>

\* someone creates EXIT_SIGNAL_FILE while the orchestrator runs.
create_marker ==
    /\ Live
    /\ ~stopMarker
    /\ stopMarker' = TRUE
    /\ UNCHANGED <<pc, phase, disk, last_mtimes, acc, listed,
                   changes_detected, game, game_tmp, dll_built, binary_built,
                   running, hostAlive, spawnCount, exitCount, failCount,
                   inFlight, queryFailed, snap0, prev0, quiet,
                   pollsSinceMarker, rebuildsSinceMarker, markerAtStart,
                   coalesce, inspected, vanished, lateInitial, lateRebuild,
                   initialBuild, snapshots, fsEvents>>

\* a process listed under EXE exits on its own (the window is closed, it
\* crashes).
host_exit ==
    /\ Live
    /\ hostAlive > 0
    /\ exitCount + failCount < MaxProcEvents
    /\ hostAlive' = hostAlive - 1
    /\ exitCount' = exitCount + 1
    /\ UNCHANGED <<pc, phase, disk, last_mtimes, acc, listed,
                   changes_detected, game, game_tmp, dll_built, binary_built,
                   running, stopMarker, spawnCount, failCount, inFlight,
                   queryFailed, snap0, prev0, quiet, pollsSinceMarker,
                   rebuildsSinceMarker, markerAtStart, coalesce, inspected,
                   vanished, lateInitial, lateRebuild, initialBuild,
                   snapshots, fsEvents>>

(* ------------------------------ main ----------------------------------- *)
\* main, line 165: setup is done and the initial build_and_run_project is
\* about to start.  The source tree, the artifact left by an earlier
\* session and the marker are whatever they are; no process is listed
\* under EXE yet.
Init ==
    /\ pc = "build_dll"
    /\ phase = "initial"
    /\ disk \in Dicts
    /\ last_mtimes = Empty
    /\ acc = Empty
    /\ listed = {}
    /\ changes_detected = FALSE
    /\ game \in {Absent, Complete("bytes1")}
    /\ game_tmp = Absent
    /\ dll_built = FALSE
    /\ binary_built = FALSE
    /\ running = FALSE
    /\ hostAlive = 0
    /\ stopMarker \in BOOLEAN
    /\ markerAtStart = stopMarker
    /\ spawnCount = 0
    /\ exitCount = 0
    /\ failCount = 0
    /\ inFlight = 0
    /\ queryFailed = FALSE
    /\ snap0 = Empty
    /\ prev0 = Empty
    /\ quiet = 0
    /\ pollsSinceMarker = 0
    /\ rebuildsSinceMarker = 0
    /\ coalesce = "none"
    /\ inspected = Empty
    /\ vanished = {}
    /\ lateInitial = {}
    /\ lateRebuild = {}
    /\ initialBuild = "pending"
    /\ snapshots = 0
    /\ fsEvents = 0

Next ==
    \/ build_dll_start
    \/ dll_compiler_writes
    \/ dll_compiler_ok
    \/ dll_compiler_fail
    \/ dll_rename
    \/ build_binary_start
    \/ build_binary_exit
    \/ decide
    \/ is_binary_running
    \/ run_binary
    \/ populate_list
    \/ populate_stat
    \/ populate_done
    \/ check_list
    \/ check_stat
    \/ check_exhausted
    \/ watch_branch
    \/ check_stop
    \/ unlink_and_break
    \/ sleep
    \/ fs_create
    \/ fs_modify
    \/ fs_delete
    \/ create_marker
    \/ host_exit

Spec == Init /\ [][Next]_vars

\* The steps of the orchestrator itself and of the compilers it waits for:
\* the interpreter keeps executing main, subprocess.run returns when the
\* compiler exits, and time.sleep(1) returns.
Orchestrator ==
    \/ build_dll_start
    \/ dll_compiler_ok
    \/ dll_compiler_fail
    \/ dll_rename
    \/ build_binary_start
    \/ build_binary_exit
    \/ decide
    \/ is_binary_running
    \/ run_binary
    \/ populate_list
    \/ populate_stat
    \/ populate_done
    \/ check_list
    \/ check_stat
    \/ check_exhausted
    \/ watch_branch
    \/ check_stop
    \/ unlink_and_break
    \/ sleep

FairSpec == Init /\ [][Next]_vars /\ WF_vars(Orchestrator)

(***************************************************************************)
(*                              Claims                                     *)
(***************************************************************************)

\* C1: in every build_and_run_project cycle run_binary is invoked if and
\* only if both dll_built and binary_built are true; when either build
\* failed the cycle returns without a process query and without a spawn.
C1_RunIffBothBuilt ==
    [][ /\ (pc = "decide" /\ pc' # "decide")
              => ((pc' = "is_running") <=> (dll_built /\ binary_built))
        /\ (pc' \in {"is_running", "run_binary"} /\ pc' # pc)
              => (dll_built /\ binary_built)
        /\ (spawnCount' # spawnCount \/ hostAlive' > hostAlive)
              => (pc = "run_binary" /\ dll_built /\ binary_built)
      ]_vars

\* the initial cycle has returned after a failed module build (no artifact
\* was ever renamed into place) and nothing was spawned although no host
\* was running.
C1_Witness ==
    /\ pc = "populate"
    /\ game = Absent
    /\ spawnCount = 0
    /\ hostAlive = 0

\* C2: the artifact at the final path changes only by the rename of a
\* complete game_tmp after a compiler run that exited 0; a failed build_dll
\* leaves it as it was, and the final path never holds a partial artifact.
C2_AtomicArtifact ==
    /\ [](game.kind # "partial")
    /\ [][ /\ (game' # game)
                 => (pc = "dll_rename" /\ game_tmp.kind = "complete"
                     /\ game' = game_tmp)
           /\ (pc = "dll_compiling" /\ pc' = "build_binary") => game' = game
         ]_vars

\* a rebuild's module build has failed, leaving a partial game_tmp beside
\* the complete artifact of an earlier build.
C2_Witness ==
    /\ pc = "build_binary"
    /\ phase = "watch"
    /\ ~dll_built
    /\ game_tmp = Partial
    /\ game.kind = "complete"

\* C3: a poll that runs after a file of the snapshot was deleted (and no
\* other fs event happens while it runs) returns true and leaves the file
\* out of the snapshot.
C3_DeletionDetected ==
    (pc = "check_return" /\ quiet >= 1)
        => \A f \in DOMAIN snap0 \ DOMAIN disk :
               changes_detected /\ f \notin DOMAIN last_mtimes

\* C4: the fs events that fall into one sleep of the watch loop cause no
\* more than one rebuild cycle.
C4_Coalesced == coalesce # "two"

\* s is a snapshot of the directory as it was before files were created:
\* it agrees with the disk on its own files and misses at least one file.
CreatedSince(s) ==
    /\ DOMAIN s \subseteq DOMAIN disk
    /\ DOMAIN s # DOMAIN disk
    /\ \A f \in DOMAIN s : s[f] = disk[f]

\* C5: after files absent from the snapshot were created, the next poll
\* returns true and the poll after it, with no further fs event, returns
\* false.
C5_NewFileDetected ==
    /\ (pc = "check_return" /\ quiet = 1 /\ CreatedSince(snap0))
          => changes_detected
    /\ (pc = "check_return" /\ quiet = 2 /\ CreatedSince(prev0))
          => ~changes_detected

\* C6: when the snapshot records a file at one time and the disk holds it
\* at another, the next poll returns true, whatever the other files are.
C6_ModificationDetected ==
    (/\ pc = "check_return"
     /\ quiet >= 1
     /\ \E f \in DOMAIN snap0 \cap DOMAIN disk : snap0[f] # disk[f])
        => changes_detected

\* a poll has returned true with two files on disk, one of them modified
\* since the snapshot and the other one unchanged.
C6_Witness ==
    /\ pc = "check_return"
    /\ quiet >= 1
    /\ changes_detected
    /\ DOMAIN disk = Files
    /\ DOMAIN snap0 = Files
    /\ \E f \in Files : snap0[f] # disk[f]
    /\ \E f \in Files : snap0[f] = disk[f]

\* C7: when the snapshot agrees with the disk, a poll returns false and
\* leaves the snapshot as it was, and so does the poll after it.
C7_IdempotentPoll ==
    /\ (pc = "check_return" /\ quiet >= 1 /\ snap0 = disk)
          => (~changes_detected /\ last_mtimes = snap0)
    /\ (pc = "check_return" /\ quiet = 2 /\ prev0 = disk)
          => (~changes_detected /\ snap0 = prev0 /\ last_mtimes = prev0)

\* the second of two successive polls over an unchanged, non-empty tree has
\* returned.
C7_Witness ==
    /\ pc = "check_return"
    /\ quiet = 2
    /\ prev0 = disk
    /\ DOMAIN disk = Files
    /\ ~changes_detected

\* C8: at most one poll begins while the marker exists; every iteration,
\* with or without a rebuild, reaches the stop check before the next poll;
\* and the marker is gone once the loop has exited.
C8_StopConsumed ==
    /\ [](pollsSinceMarker <= 1)
    /\ [](pc = "stopped" => ~stopMarker)
    /\ [][ /\ (pc' = "sleep" /\ pc # "sleep")
                 => (pc = "check_stop" /\ ~stopMarker)
           /\ (pc' = "check" /\ pc # "check")
                 => pc \in {"sleep", "populate_stat"}
           /\ (pc' = "stopped" /\ pc # "stopped") => stopMarker
         ]_vars

\* the loop has exited after the one poll that began while the marker
\* existed.
C8_Witness ==
    /\ pc = "stopped"
    /\ phase = "watch"
    /\ pollsSinceMarker = 1
    /\ ~stopMarker

\* C9 as stated, on the runs in which every process-table query worked: the
\* orchestrator spawns the host at most once.
C9_SpawnOnce == (failCount = 0) => (spawnCount <= 1)

\* C9 (amended): the spawns never exceed one plus the host exits and the
\* failed process-table queries: a second spawn needs the host to have
\* exited, or the query to have failed, before it.
C9_SpawnBound == spawnCount <= 1 + exitCount + failCount

\* the host was spawned, exited on its own and was spawned again by a later
\* cycle, every query having worked.
C9_Witness ==
    /\ spawnCount = 2
    /\ exitCount = 1
    /\ failCount = 0

\* C10: run_binary spawns exactly when is_binary_running() returned false;
\* when it returned true nothing about the processes changes; and while
\* every query has worked a spawn happens only with no host alive.
C10_SpawnIffNotRunning ==
    [][ /\ (pc = "run_binary" /\ pc' # pc)
              => /\ (spawnCount' = spawnCount + 1) <=> ~running
                 /\ (hostAlive' = hostAlive + 1) <=> ~running
                 /\ running => (hostAlive' = hostAlive
                                /\ spawnCount' = spawnCount)
        /\ (spawnCount' # spawnCount) => (pc = "run_binary" /\ ~running)
        /\ (spawnCount' # spawnCount /\ failCount = 0) => hostAlive = 0
      ]_vars

\* a rebuild cycle is in run_binary with the host it spawned earlier found
\* in the process table.
C10_Witness ==
    /\ pc = "run_binary"
    /\ phase = "watch"
    /\ running
    /\ spawnCount = 1
    /\ hostAlive = 1

(* ------------------------------ C11 ------------------------------------ *)
\* C11 as stated: populate_last_mtimes is called only after an initial
\* build_and_run_project in which both builds succeeded.
C11_SnapshotOnlyAfterSuccess ==
    (pc = "populate_stat") => (initialBuild = "built")

\* C11 amended: populate_last_mtimes is called at most once, exactly once
\* by the time the watch loop runs, after the initial build_and_run_project
\* has returned whatever its outcome, and never from the watch loop.
C11_SnapshotOnce ==
    /\ snapshots <= 1
    /\ (phase = "watch") => (snapshots = 1)
    /\ (pc \in {"populate", "populate_stat"})
          => (phase = "initial" /\ initialBuild \in {"built", "failed"})

\* the snapshot is complete after an initial build that failed.
C11_Witness ==
    /\ snapshots = 1
    /\ initialBuild = "failed"
    /\ pc = "populate_stat"
    /\ listed = {}
    /\ DOMAIN acc = Files

(* ------------------------------ C12 ------------------------------------ *)
\* C12: a failed build ends nothing and is not remembered: a cycle whose
\* build failed returns to the caller of build_and_run_project, only a
\* failing stat in populate_last_mtimes terminates main, and a poll that
\* returned True always starts build_and_run_project.
C12_FailureNotFatal ==
    [][ /\ (pc = "decide" /\ ~(dll_built /\ binary_built) /\ pc' # pc)
            => pc' = (IF phase = "initial" THEN "populate" ELSE "check_stop")
        /\ (pc = "check_return" /\ changes_detected /\ pc' # pc)
            => pc' = "build_dll"
        /\ (pc' = "crashed" /\ pc # "crashed") => pc = "populate_stat"
        /\ (pc' = "stopped" /\ pc # "stopped") => pc = "unlink"
      ]_vars

\* a rebuild starts although no module build has succeeded so far and the
\* failed compiler left a partial output behind.
C12_Witness ==
    /\ game = Absent
    /\ game_tmp = Partial
    /\ phase = "watch"
    /\ pc = "build_dll"

(* ------------------------------ C13 ------------------------------------ *)
\* C13: when check_for_changes returns, with or without the early break,
\* every file it stat-ed in this call and that still exists has an entry in
\* last_mtimes equal to the st_mtime that stat returned.
C13_InspectedRecorded ==
    (pc \in {"check_stat", "check_return"}) =>
        \A f \in (DOMAIN inspected) \cap (DOMAIN disk) :
            /\ f \in DOMAIN last_mtimes
            /\ last_mtimes[f] = inspected[f]

\* an early return: one file was found unchanged, the next one changed.
C13_Witness ==
    /\ pc = "check_return"
    /\ changes_detected
    /\ DOMAIN inspected = Files
    /\ \E f \in Files : f \in DOMAIN snap0 /\ snap0[f] # last_mtimes[f]

(* ------------------------------ C14 ------------------------------------ *)
\* f is on disk with an mtime the snapshot does not record.
Pending(f) ==
    /\ phase = "watch"
    /\ f \in DOMAIN disk
    /\ (f \in DOMAIN last_mtimes => last_mtimes[f] # disk[f])

\* files whose snapshot entry is written by the step.
Written ==
    {f \in Files : /\ f \in DOMAIN last_mtimes'
                   /\ (f \in DOMAIN last_mtimes => last_mtimes'[f] # last_mtimes[f])}

\* C14: no added or modified file is missed because of the early break.
\* In the watch loop a step writes at most one snapshot entry and only as
\* check_for_changes returns True; a check_for_changes that returns False
\* with no fs event since it began leaves no file on disk differing from
\* the snapshot; and every pending file stops being pending (by the two
\* facts before, through a poll that returned True for it, unless the
\* developer deletes or reverts it) or the orchestrator ends.
C14_NoMissedChange ==
    /\ [][ (phase = "watch" /\ Written # {})
              => /\ Cardinality(Written) = 1
                 /\ pc = "check_stat"
                 /\ pc' = "check_return"
                 /\ changes_detected' ]_vars
    /\ []( (pc = "check_return" /\ ~changes_detected /\ quiet >= 1)
              => \A f \in Files : ~Pending(f) )
    /\ \A f \in Files : Pending(f) ~> (~Pending(f) \/ ~Live)

\* both files were changed in one sleep; the first poll reported one of
\* them and the poll after its rebuild now reports the other.
C14_Witness ==
    /\ coalesce = "two"
    /\ pc = "build_dll"
    /\ \A f \in Files : ~Pending(f)

(* ------------------------------ C15 ------------------------------------ *)
\* C15: when a check_for_changes returns and no fs event happened since it
\* began (the disk is as the scan saw it), every key of last_mtimes is a
\* file on disk.
C15_NoStaleEntries ==
    (pc = "check_return" /\ quiet >= 1) =>
        (DOMAIN last_mtimes) \subseteq (DOMAIN disk)

(* ------------------------------ C16 ------------------------------------ *)
\* C16: a file that is gone when a scan comes to stat it never terminates
\* the orchestrator, in populate_last_mtimes or in check_for_changes, and a
\* check_for_changes in which that happened returns True with the file's
\* entry dropped.
C16_VanishBenign ==
    /\ pc # "crashed"
    /\ (pc = "check_return" /\ vanished # {})
          => /\ changes_detected
             /\ vanished \cap (DOMAIN last_mtimes) = {}

(* ------------------------------ C17 ------------------------------------ *)
\* C17: a process-table query that raises makes is_binary_running return
\* False and nothing else; the run_binary that follows it spawns the host,
\* whatever is alive, and build_and_run_project returns to its caller.
C17_QueryFailureSpawns ==
    [][ /\ (pc = "is_running" /\ failCount' # failCount)
            => (~running' /\ pc' = "run_binary")
        /\ (pc = "run_binary" /\ queryFailed /\ pc' # pc)
            => /\ spawnCount' = spawnCount + 1
               /\ hostAlive' = hostAlive + 1
               /\ pc' = (IF phase = "initial" THEN "populate"
                                              ELSE "check_stop")
      ]_vars

\* a second host was spawned beside a live one and the loop goes on.
C17_Witness ==
    /\ failCount = 1
    /\ hostAlive = 2
    /\ spawnCount = 2
    /\ pc = "sleep"

(* ------------------------------ C18 ------------------------------------ *)
\* C18: at most one compiler is in flight; none is in flight while the
\* orchestrator is anywhere outside build_dll / build_and_run_binary (in
\* particular in check_for_changes, at the stop check or asleep); and the
\* module's compiler has exited when the executable's is started.
C18_NoOverlap ==
    /\ inFlight <= 1
    /\ (pc \notin {"dll_compiling", "binary_compiling"}) => (inFlight = 0)
    /\ (pc = "build_binary") => (inFlight = 0)
    /\ (pc = "binary_compiling") => (inFlight = 1)

\* a rebuild's executable compile is the only compiler running.
C18_Witness ==
    /\ phase = "watch"
    /\ pc = "binary_compiling"
    /\ inFlight = 1
    /\ dll_built

(* ------------------------------ C19 ------------------------------------ *)
\* C19 as stated: no check_for_changes returns False while a file that was
\* added or modified during a build_and_run_project, the initial one or a
\* rebuild, has had no build_and_run_project started after that change.
C19_NoLostChange ==
    (pc = "check_return" /\ ~changes_detected)
        => (lateInitial = {} /\ lateRebuild = {})

\* C19 amended: a file added or modified during a rebuild, left with an
\* mtime the snapshot does not record, is not lost: no check_for_changes
\* returns False while it waits, and it stops waiting (another
\* build_and_run_project starts, or the developer deletes or reverts the
\* file) or the orchestrator ends.
C19_RebuildChangeKept ==
    /\ []( (pc = "check_return" /\ ~changes_detected) => (lateRebuild = {}) )
    /\ [][ (lateRebuild # {} /\ lateRebuild' = {} /\ pc' # pc)
              => (pc = "check_return" /\ pc' = "build_dll") ]_vars
    /\ (lateRebuild # {}) ~> (lateRebuild = {} \/ ~Live)

\* the poll after a rebuild has just reported a file changed during it.
C19_Witness ==
    /\ pc = "check_return"
    /\ changes_detected
    /\ \E f \in lateRebuild : f \in DOMAIN last_mtimes /\ last_mtimes[f] = disk[f]

(* ------------------------------ C20 ------------------------------------ *)
\* C20: the marker is looked at only at line 152, which the loop reaches
\* from the return of check_for_changes or of the rebuild it caused, and
\* it is deleted only there.  A marker that exists when main starts does
\* not keep the initial build_and_run_project or populate_last_mtimes
\* from running; the loop then makes one check_for_changes call, at most
\* one rebuild, and never a second iteration, and when it has exited the
\* marker is gone.
C20_StopOnlyInLoop ==
    /\ [][ /\ (pc' = "check_stop" /\ pc # "check_stop")
               => /\ phase = "watch"
                  /\ pc \in {"check_return", "decide", "run_binary"}
           /\ (pc' = "unlink" /\ pc # "unlink") => pc = "check_stop"
           /\ (stopMarker /\ ~stopMarker') => (pc = "unlink" /\ pc' = "stopped")
         ]_vars
    /\ []( markerAtStart
              => /\ pollsSinceMarker <= 1
                 /\ rebuildsSinceMarker <= 1
                 /\ (phase = "watch") => (snapshots = 1)
                 /\ (pc = "stopped") => (pollsSinceMarker = 1 /\ ~stopMarker) )

\* the marker was there from the start: the initial cycle spawned the host,
\* the one poll found a change, its rebuild ran, and the loop has exited.
C20_Witness ==
    /\ markerAtStart
    /\ pc = "stopped"
    /\ spawnCount = 1
    /\ pollsSinceMarker = 1
    /\ rebuildsSinceMarker = 1
====
